---- MODULE Spec2Model ----
(***************************************************************************)
(* Document history of the label editor: ActionStack and UndoRedoStack     *)
(* (lib/undo-redo-stack.ts), driven by a client that calls the public      *)
(* operations in any order.                                                *)
(*                                                                         *)
(* JavaScript arrays are reference values, so the arrays live in a heap    *)
(* and the stacks hold references into it; getValues() hands references    *)
(* to the client, which may mutate what it was given.                      *)
(***************************************************************************)
EXTENDS Integers, Sequences, FiniteSets, TLC

\* ------------------------------------------------------------------ bounds
MaxPushes == 3          \* push() calls in one behaviour
MaxMut == 1             \* client mutations of arrays returned by getValues()
MaxArr == 2             \* length a client may grow a returned array to
MaxW == 3               \* width in pixels of a scanned raster
MaxH == 3               \* height in pixels of a scanned raster
MaxAligns == 2          \* alignObject() calls in one behaviour
MaxLoads == 2           \* undo/redo requests of the editor that reload

\* ------------------------------------------------------------- data model
\* Snapshot strings the host serializes (JSON.stringify of the canvas).
Vals == {"A", "B"}

\* A snapshot in the history: the pushed string, tagged with the serial
\* number of the push() call that brought it in (0: not from a push).
\* The tag tells apart two pushes of equal strings.
Entry(v, i) == [val |-> v, id |-> i]

\* JavaScript's undefined, the "empty" / "no-op" sentinel.
Undefined == Entry("undefined", 0)

\* Array references: the two ActionStack.state arrays of the default
\* UndoRedoStack, and the two arrays of the last getValues() result.
UndoArr == 1
RedoArr == 2
CopyUndoArr == 3
CopyRedoArr == 4
\* An array a client built and passed to "new ActionStack(arr)", and the
\* arrays of a second, default-constructed UndoRedoStack.
PassedArr == 5
OtherUndoArr == 6
OtherRedoArr == 7
ArrIds == {UndoArr, RedoArr, CopyUndoArr, CopyRedoArr,
           PassedArr, OtherUndoArr, OtherRedoArr}

VARIABLES
  heap,        \* array reference -> contents (bottom first, top last)
  undoStack,   \* UndoRedoStack.undoStack: reference of its state array
  redoStack,   \* UndoRedoStack.redoStack: reference of its state array
  held,        \* the client's last getValues() result: <<undo ref, redo ref>>
  nPush,       \* number of push() calls so far
  nMut,        \* number of client mutations so far
  lastOp,      \* the operation called last
  arg,         \* its argument (Undefined if it has none)
  ret,         \* its return value (Undefined if it returns nothing)
  phase,       \* shape of the call sequence so far, see NextPhase
  base,        \* the snapshots pushed while the sequence was only pushes
  nUndo,       \* undo() calls in phase "undos" (saturates at MaxPushes)
  nRedo,       \* redo() calls in phase "redos" (saturates at MaxPushes)
  discarded,   \* ids of snapshots that were on the redo stack at a push()
  cur,         \* snapshot most recently made current by push/undo/redo
  cleared,     \* clear() has been called at some point
  floorSet,    \* a push() has occurred since construction / the last clear()
  img,         \* the rasterized object: [w, h, opaque], see Images
  scanned,     \* scanPixels has run on img
  scanOut,     \* the record scanPixels returned
  objLeft,     \* activeSelection.left, in half pixels
  objTop,      \* activeSelection.top, in half pixels
  bndDX,       \* getBoundingRect().left - left, in half pixels
  bndDY,       \* getBoundingRect().top - top, in half pixels
  canvasWidth, \* canvas.width, in pixels
  canvasHeight,\* canvas.height, in pixels
  pending,     \* alignObject calls awaiting getRealBBox
  nAlign,      \* number of alignObject calls so far
  fired,       \* number of 'object:modified' events alignObject has fired
  alOp,        \* last alignment step: "none", "call" or "resume"
  alTask,      \* the call that step belongs to
  alBox,       \* the realBound the last resumed call obtained
  alSame,      \* the position all calls so far were for, else "mixed"
  canvas,      \* the document on the editor's canvas
  loads,       \* loadFromJSON calls of the editor that have not finished
  nLoads,      \* number of loadFromJSON calls the editor has made
  timerPending,\* the editor's delayed initial capture has not run yet
  edOp,        \* last step of the editor
  edBurst,     \* only undo/redo requests and their loads since no load
               \* was pending
  bbUrl,       \* what obj.toDataURL({}) gave getRealBBox: see DataUrls
  bbPc,        \* where a getRealBBox call stands, see BBoxCall
  store,       \* localStorage: name -> stored string, or NoItem
  saved,       \* name -> the value last saved and not removed, or NoValue
  stOp,        \* last SaveInBrowser call: "save", "load" or "remove"
  stName,      \* its name argument
  stRet        \* what the last load did: [threw, value]

histVars == <<heap, undoStack, redoStack, held, nPush, nMut, lastOp, arg, ret,
              phase, base, nUndo, nRedo, discarded, cur, cleared, floorSet>>
scanVars == <<img, scanned, scanOut>>
alignVars == <<objLeft, objTop, bndDX, bndDY, canvasWidth, canvasHeight,
               pending, nAlign, fired, alOp, alTask, alBox, alSame>>
edVars == <<canvas, loads, nLoads, timerPending, edOp, edBurst>>
bboxVars == <<bbUrl, bbPc>>
storeVars == <<store, saved, stOp, stName, stRet>>
addedVars == <<bboxVars, storeVars>>
otherVars == <<scanVars, alignVars, edVars, addedVars>>

vars == <<histVars, otherVars>>

undoState == heap[undoStack]
redoState == heap[redoStack]

Ids(st) == {st[i].id : i \in 1..Len(st)}

Min(a, b) == IF a < b THEN a ELSE b

\* ------------------------------------------------------------ ActionStack
\* Each operator takes the contents of this.state.

\* Variant: the constructor copies the array it is given into fresh.
ActionStack_constructor_copy(h, arr, fresh) ==
  [heap |-> [h EXCEPT ![fresh] = h[arr]], ref |-> fresh]

\* constructor(private readonly state: any[] = []): this.state is the array
\* passed, arr itself; without an argument arr is a new empty array, made
\* at that call.  fresh is a reference not in use.
ActionStack_constructor(h, arr, fresh) ==
  [heap |-> h, ref |-> arr]

ActionStack_push(st, val) == Append(st, val)

\* Array.prototype.pop: removes and returns the last element; on an empty
\* array returns undefined and leaves it empty.
ActionStack_pop(st) ==
  IF Len(st) = 0
    THEN [state |-> st, ret |-> Undefined]
    ELSE [state |-> SubSeq(st, 1, Len(st) - 1), ret |-> st[Len(st)]]

\* Variant: never reports empty.
ActionStack_isEmpty_never(st) == Len(st) < 0

ActionStack_isEmpty(st) == Len(st) < 1

\* splice(0) removes every element from index 0 on.
ActionStack_clear(st) == SubSeq(st, 1, 0)

\* Variant: at(0), the first element.
ActionStack_current_first(st) == IF Len(st) = 0 THEN Undefined ELSE st[1]

\* at(-1): the last element, undefined on an empty array.
ActionStack_current(st) == IF Len(st) = 0 THEN Undefined ELSE st[Len(st)]

ActionStack_length(st) == Len(st)

\* Variant: returns this.state itself instead of a copy.
ActionStack_getValues_alias(h, s, fresh) ==
  [heap |-> h, ref |-> s]

\* [...this.state]: a new array, at reference fresh, with the same elements.
ActionStack_getValues(h, s, fresh) ==
  [heap |-> [h EXCEPT ![fresh] = h[s]], ref |-> fresh]

\* ---------------------------------------------------------- UndoRedoStack
\* Each operator takes the heap before the call and yields the heap after
\* it together with the value the method returns.

\* Variant: forgets to clear the redo stack.
UndoRedoStack_push_keepRedo(h, val) ==
  [heap |-> [h EXCEPT ![undoStack] = ActionStack_push(@, val)],
   ret |-> Undefined]

UndoRedoStack_push(h, val) ==
  LET h1 == [h EXCEPT ![undoStack] = ActionStack_push(@, val)]
      h2 == [h1 EXCEPT ![redoStack] = ActionStack_clear(@)]
  IN  [heap |-> h2, ret |-> Undefined]

\* Variant: guard "length >= 1", which gives up the floor entry.
UndoRedoStack_undo_floor(h) ==
  IF ActionStack_length(h[undoStack]) >= 1
    THEN LET op == ActionStack_pop(h[undoStack])
             h1 == [h EXCEPT ![undoStack] = op.state]
             h2 == [h1 EXCEPT ![redoStack] = ActionStack_push(@, op.ret)]
         IN  [heap |-> h2, ret |-> ActionStack_current(h2[undoStack])]
    ELSE [heap |-> h, ret |-> Undefined]

\* Variant: no guard at all.
UndoRedoStack_undo_noGuard(h) ==
  LET op == ActionStack_pop(h[undoStack])
      h1 == [h EXCEPT ![undoStack] = op.state]
      h2 == [h1 EXCEPT ![redoStack] = ActionStack_push(@, op.ret)]
  IN  [heap |-> h2, ret |-> ActionStack_current(h2[undoStack])]

\* Variant: returns the popped entry instead of the new top.
UndoRedoStack_undo_retOp(h) ==
  IF ActionStack_length(h[undoStack]) > 1
    THEN LET op == ActionStack_pop(h[undoStack])
             h1 == [h EXCEPT ![undoStack] = op.state]
             h2 == [h1 EXCEPT ![redoStack] = ActionStack_push(@, op.ret)]
         IN  [heap |-> h2, ret |-> op.ret]
    ELSE [heap |-> h, ret |-> Undefined]

UndoRedoStack_undo(h) ==
  IF ActionStack_length(h[undoStack]) > 1
    THEN LET op == ActionStack_pop(h[undoStack])
             h1 == [h EXCEPT ![undoStack] = op.state]
             h2 == [h1 EXCEPT ![redoStack] = ActionStack_push(@, op.ret)]
         IN  [heap |-> h2, ret |-> ActionStack_current(h2[undoStack])]
    ELSE [heap |-> h, ret |-> Undefined]

\* Variant: reads the top of the redo stack without removing it.
UndoRedoStack_redo_peek(h) ==
  IF ~ActionStack_isEmpty(h[redoStack])
    THEN LET op == ActionStack_current(h[redoStack])
             h2 == [h EXCEPT ![undoStack] = ActionStack_push(@, op)]
         IN  [heap |-> h2, ret |-> op]
    ELSE [heap |-> h, ret |-> Undefined]

\* Variant: returns the top the undo stack had before the call.
UndoRedoStack_redo_retOld(h) ==
  IF ~ActionStack_isEmpty(h[redoStack])
    THEN LET op == ActionStack_pop(h[redoStack])
             h1 == [h EXCEPT ![redoStack] = op.state]
             h2 == [h1 EXCEPT ![undoStack] = ActionStack_push(@, op.ret)]
         IN  [heap |-> h2, ret |-> ActionStack_current(h[undoStack])]
    ELSE [heap |-> h, ret |-> Undefined]

\* Variant: takes the bottom entry of the redo stack (shift for pop).
UndoRedoStack_redo_bottom(h) ==
  IF ~ActionStack_isEmpty(h[redoStack])
    THEN LET op == h[redoStack][1]
             h1 == [h EXCEPT ![redoStack] = SubSeq(@, 2, Len(@))]
             h2 == [h1 EXCEPT ![undoStack] = ActionStack_push(@, op)]
         IN  [heap |-> h2, ret |-> op]
    ELSE [heap |-> h, ret |-> Undefined]

UndoRedoStack_redo(h) ==
  IF ~ActionStack_isEmpty(h[redoStack])
    THEN LET op == ActionStack_pop(h[redoStack])
             h1 == [h EXCEPT ![redoStack] = op.state]
             h2 == [h1 EXCEPT ![undoStack] = ActionStack_push(@, op.ret)]
         IN  [heap |-> h2, ret |-> op.ret]
    ELSE [heap |-> h, ret |-> Undefined]

\* Variant: clears the undo stack only.
UndoRedoStack_clear_undoOnly(h) ==
  [heap |-> [h EXCEPT ![undoStack] = ActionStack_clear(@)],
   ret |-> Undefined]

UndoRedoStack_clear(h) ==
  LET h1 == [h EXCEPT ![undoStack] = ActionStack_clear(@)]
      h2 == [h1 EXCEPT ![redoStack] = ActionStack_clear(@)]
  IN  [heap |-> h2, ret |-> Undefined]

\* Variant: pops instead of peeking.
UndoRedoStack_latest_pop(h) ==
  LET op == ActionStack_pop(h[undoStack])
  IN  [heap |-> [h EXCEPT ![undoStack] = op.state], ret |-> op.ret]

UndoRedoStack_latest(h) ==
  [heap |-> h, ret |-> ActionStack_current(h[undoStack])]

\* { undo: this.undoStack.getValues(), redo: this.redoStack.getValues() }
UndoRedoStack_getValues(h) ==
  LET u == ActionStack_getValues(h, undoStack, CopyUndoArr)
      r == ActionStack_getValues(u.heap, redoStack, CopyRedoArr)
  IN  [heap |-> r.heap, ret |-> <<u.ref, r.ref>>]

\* ------------------------------------------------------ scanPixels (utils)
\* A rasterized object: w x h pixels, row-major, origin top-left; pixel
\* (x, y) has index y*w + x.  opaque is the set of indices of the pixels with
\* non-zero alpha.
Pixels(w, h) == 0..(w * h - 1)
Images(w, h) == { [w |-> w, h |-> h, opaque |-> o] : o \in SUBSET Pixels(w, h) }

Col(im, p) == p % im.w
Row(im, p) == p \div im.w

\* ctx.getImageData(0, 0, w, h).data: a Uint8ClampedArray of 4 bytes per
\* pixel in the order R, G, B, A.  Opaque pixels are drawn white with alpha
\* 255, transparent ones are all zero.
getImageData(im) ==
  [i \in 0..(4 * im.w * im.h - 1) |-> IF (i \div 4) \in im.opaque THEN 255 ELSE 0]

\* An unsigned 32-bit value, as its four bytes from the least to the most
\* significant.
ToUint32(v) ==
  <<v % 256, (v \div 256) % 256, (v \div 65536) % 256, (v \div 16777216) % 256>>

\* new Uint32Array(typedArray): a new array of the same length, each
\* element converted on its own to an unsigned 32-bit value.
Uint32Array(imageData) ==
  [i \in DOMAIN imageData |-> ToUint32(imageData[i])]

\* word & 0xff000000: the most significant byte, the others cleared.
AlphaMask(word) == <<0, 0, 0, word[4]>>

\* The test "data[y * w + x] & 0xff000000" of the four sweeps: true when
\* the masked value is not zero.
IsHit(data, w, x, y) == AlphaMask(data[y * w + x]) # ToUint32(0)

\* Inner loop of the y1 and y2 sweeps: columns left to right, stop at a hit.
RowHasHit(data, w, y) == \E x \in 0..(w - 1) : IsHit(data, w, x, y)

\* Variant: an empty buffer defaults y1 to h.
RECURSIVE ScanY1_defaultH(_, _, _, _)
ScanY1_defaultH(data, w, h, y) ==
  IF ~(y < h) THEN h
  ELSE IF RowHasHit(data, w, y) THEN y
  ELSE ScanY1_defaultH(data, w, h, y + 1)

\* y1: rows top to bottom from y; the first row with a hit, else h - 1.
RECURSIVE ScanY1(_, _, _, _)
ScanY1(data, w, h, y) ==
  IF ~(y < h) THEN h - 1
  ELSE IF RowHasHit(data, w, y) THEN y
  ELSE ScanY1(data, w, h, y + 1)

\* y2: rows bottom to top from y while y > y1; the first row with a hit,
\* else y1 + 1.
RECURSIVE ScanY2(_, _, _, _)
ScanY2(data, w, y1, y) ==
  IF ~(y > y1) THEN y1 + 1
  ELSE IF RowHasHit(data, w, y) THEN y
  ELSE ScanY2(data, w, y1, y - 1)

\* One row of the x1 sweep: columns left to right from x; the first hit
\* left of the x1 found so far replaces it.
RECURSIVE RowX1(_, _, _, _, _)
RowX1(data, w, y, x1, x) ==
  IF ~(x < w) THEN x1
  ELSE IF x < x1 /\ IsHit(data, w, x, y) THEN x
  ELSE RowX1(data, w, y, x1, x + 1)

\* x1: rows y..y2-1, starting from the x1 found so far.
RECURSIVE ScanX1(_, _, _, _, _)
ScanX1(data, w, y2, x1, y) ==
  IF ~(y < y2) THEN x1
  ELSE ScanX1(data, w, y2, RowX1(data, w, y, x1, 0), y + 1)

\* One row of the x2 sweep: columns right to left from x while x > x1; the
\* first hit right of the x2 found so far replaces it.
RECURSIVE RowX2(_, _, _, _, _, _)
RowX2(data, w, y, x1, x2, x) ==
  IF ~(x > x1) THEN x2
  ELSE IF x > x2 /\ IsHit(data, w, x, y) THEN x
  ELSE RowX2(data, w, y, x1, x2, x - 1)

\* x2: rows y..y2-1, starting from the x2 found so far.
RECURSIVE ScanX2(_, _, _, _, _, _)
ScanX2(data, w, y2, x1, x2, y) ==
  IF ~(y < y2) THEN x2
  ELSE ScanX2(data, w, y2, x1, RowX2(data, w, y, x1, x2, w - 1), y + 1)

scanPixels(imageData, w, h) ==
  LET data == Uint32Array(imageData)
      y1 == ScanY1(data, w, h, 0)
      y2 == ScanY2(data, w, y1, h - 1)
      x1 == ScanX1(data, w, y2, w, y1)
      x2 == ScanX2(data, w, y2, x1, 0, y1)
  IN  [x1 |-> x1, x2 |-> x2, y1 |-> y1, y2 |-> y2,
       width |-> x2 - x1, height |-> y2 - y1]

\* No scan result yet.
NoBox == [x1 |-> 0, x2 |-> 0, y1 |-> 0, y2 |-> 0, width |-> 0, height |-> 0]

\* No raster is being scanned.
ScanIdle ==
  /\ img = [w |-> 1, h |-> 1, opaque |-> {}]
  /\ scanned = FALSE
  /\ scanOut = NoBox

\* ----------------------------------------------------- alignObject (utils)
\* Coordinates of the object are kept in half pixels, so that the halves
\* "canvas.width / 2" and "realBound.width / 2" are exact.
Px(n) == 2 * n          \* n pixels
HalfOfPx(n) == n        \* n / 2 pixels

Horizontal == {"left", "center-h", "right"}
Vertical == {"top", "center-v", "bottom"}

\* Variant: the default label sits on the 'left' case.
alignObject_case_leftDefault(pos) ==
  IF pos \in Horizontal \cup Vertical THEN pos ELSE "left"

\* switch (pos): the case taken.
alignObject_case(pos) ==
  IF pos \in Horizontal \cup Vertical THEN pos ELSE "default"

\* Variant: 'right' subtracts realBound.x2 instead of realBound.width.
alignObject_left_x2(branch, left, boundLeft, realBound, width) ==
  CASE branch = "left" -> left - boundLeft - Px(realBound.x1)
    [] branch = "center-h" ->
         (left - boundLeft - Px(realBound.x1)) + HalfOfPx(width)
           - HalfOfPx(realBound.width)
    [] branch = "right" ->
         (left - boundLeft - Px(realBound.x1)) + Px(width) - Px(realBound.x2)
    [] OTHER -> left

\* The value the horizontal cases give to activeSelection.set('left', ...).
alignObject_left(branch, left, boundLeft, realBound, width) ==
  CASE branch = "left" -> left - boundLeft - Px(realBound.x1)
    [] branch = "center-h" ->
         (left - boundLeft - Px(realBound.x1)) + HalfOfPx(width)
           - HalfOfPx(realBound.width)
    [] branch = "right" ->
         (left - boundLeft - Px(realBound.x1)) + Px(width) - Px(realBound.width)
    [] OTHER -> left

\* Variant: 'bottom' copies 'right' and subtracts realBound.width.
alignObject_top_width(branch, top, boundTop, realBound, height) ==
  CASE branch = "top" -> top - boundTop - Px(realBound.y1)
    [] branch = "center-v" ->
         (top - boundTop - Px(realBound.y1)) + HalfOfPx(height)
           - HalfOfPx(realBound.height)
    [] branch = "bottom" ->
         (top - boundTop - Px(realBound.y1)) + (Px(height) - Px(realBound.width))
    [] OTHER -> top

\* The value the vertical cases give to activeSelection.set('top', ...).
alignObject_top(branch, top, boundTop, realBound, height) ==
  CASE branch = "top" -> top - boundTop - Px(realBound.y1)
    [] branch = "center-v" ->
         (top - boundTop - Px(realBound.y1)) + HalfOfPx(height)
           - HalfOfPx(realBound.height)
    [] branch = "bottom" ->
         (top - boundTop - Px(realBound.y1)) + (Px(height) - Px(realBound.height))
    [] OTHER -> top

\* getRealBBox(obj): the object is rendered (toDataURL), decoded and scanned.
getRealBBox(im) == scanPixels(getImageData(im), im.w, im.h)

\* activeSelection.getBoundingRect()
getBoundingRect == [left |-> objLeft + bndDX, top |-> objTop + bndDY]

NoTask == [id |-> 0, pos |-> "none", branch |-> "none",
           boundLeft |-> 0, boundTop |-> 0]

\* No object is being aligned.
AlignIdle ==
  /\ objLeft = 0
  /\ objTop = 0
  /\ bndDX = 0
  /\ bndDY = 0
  /\ canvasWidth = 0
  /\ canvasHeight = 0
  /\ pending = {}
  /\ nAlign = 0
  /\ fired = 0
  /\ alOp = "none"
  /\ alTask = NoTask
  /\ alBox = NoBox
  /\ alSame = "none"

\* ------------------------------------------------------ ImageEditor (core)
\* The documents a canvas can hold, by the number of objects on it; 0 is
\* the empty canvas.
Docs == 0..2

\* JSON.stringify(canvas.toJSON()) and JSON.parse of such a string.
JSON_stringify(d) == CASE d = 0 -> "E" [] d = 1 -> "A" [] d = 2 -> "B"
JSON_parse(str) == CASE str = "E" -> 0 [] str = "A" -> 1 [] str = "B" -> 2

\* ------------------------------------------------ SaveInBrowser (persistence)
\* JavaScript values a caller may save: a serialized-canvas object (by its
\* document), the empty object {}, or a string (by its text).
JsObject(d) == [kind |-> "object", doc |-> d, text |-> ""]
JsString(t) == [kind |-> "string", doc |-> 0, text |-> t]
EmptyObject == [kind |-> "object", doc |-> 0 - 1, text |-> ""]
NoValue == [kind |-> "none", doc |-> 0, text |-> ""]

\* "A" is the JSON text of a document, "hello" is not JSON text.
SavedValues ==
  {JsObject(d) : d \in Docs} \cup {EmptyObject}
    \cup {JsString("A"), JsString("hello")}

Names == {"canvasEditor", "other"}

\* localStorage.getItem of a name that has no item gives null.
NoItem == "null"

\* JSON.stringify of an object value.
Store_stringify(v) == IF v = EmptyObject THEN "{}" ELSE JSON_stringify(v.doc)

\* JSON.parse(text): the value, or a SyntaxError when text is not JSON.
Store_parse(text) ==
  CASE text = "{}" -> [threw |-> FALSE, value |-> EmptyObject]
    [] text \in {JSON_stringify(d) : d \in Docs} ->
         [threw |-> FALSE, value |-> JsObject(JSON_parse(text))]
    [] OTHER -> [threw |-> TRUE, value |-> NoValue]

\* SaveInBrowser.save: an object is stringified, a string stored as it is.
SaveInBrowser_save(st, name, value) ==
  [st EXCEPT ![name] = IF value.kind = "object" THEN Store_stringify(value)
                       ELSE value.text]

\* Variant: load hands back the empty object when the item does not parse.
SaveInBrowser_load_lenient(st, name) ==
  LET r == Store_parse(IF st[name] = NoItem THEN "{}" ELSE st[name])
  IN  IF r.threw THEN [threw |-> FALSE, value |-> EmptyObject] ELSE r

\* SaveInBrowser.load: JSON.parse(localStorage.getItem(name) ?? '{}').
SaveInBrowser_load(st, name) ==
  Store_parse(IF st[name] = NoItem THEN "{}" ELSE st[name])

\* SaveInBrowser.remove: localStorage.removeItem(name).
SaveInBrowser_remove(st, name) == [st EXCEPT ![name] = NoItem]

NoLoad == [threw |-> FALSE, value |-> NoValue]

\* Nothing is stored and SaveInBrowser has not been called.
StoreIdle ==
  /\ store = [n \in Names |-> NoItem]
  /\ saved = [n \in Names |-> NoValue]
  /\ stOp = "none"
  /\ stName = "none"
  /\ stRet = NoLoad

\* Variant: the handler reloads whatever the history returned.
ImageEditor_reloads_always(op) == TRUE

\* "if (op !== undefined)" of ImageEditor.undo and ImageEditor.redo.
ImageEditor_reloads(op) == op # Undefined

\* No editor is running.
EdIdle ==
  /\ canvas = 0
  /\ loads = {}
  /\ nLoads = 0
  /\ timerPending = FALSE
  /\ edOp = "none"
  /\ edBurst = FALSE

\* ------------------------------------------------------ getRealBBox (utils)
\* obj.toDataURL({}) always gives a string: a data URL the browser decodes
\* to the raster of the object, or one it cannot decode (such as "data:,"
\* for an object of no size).
DataUrls == {"image", "broken"}

\* The executor of the promise getImageData returns: reject() when there is
\* no URL; otherwise an Image is created, a 'load' listener added and
\* image.src set, and the promise stays pending.
getImageData_executor(dataUrl) ==
  IF dataUrl = "undefined" THEN "rejected" ELSE "loading"

\* The event the browser dispatches on the Image once src is set.
Image_event(dataUrl) == IF dataUrl = "image" THEN "load" ELSE "error"

\* Variant: an 'error' listener that rejects the promise.
getImageData_onEvent_rejects(ev) ==
  IF ev = "load" THEN "loaded" ELSE "rejected"

\* What dispatching the event does to the promise: the 'load' listener
\* resolves it with the image data; no other listener is registered, so
\* after 'error' the promise is still pending and nothing will settle it.
getImageData_onEvent(ev) ==
  IF ev = "load" THEN "loaded" ELSE "failed"

\* No content-bounds computation is running.
BBoxIdle ==
  /\ bbUrl = "none"
  /\ bbPc = "idle"

AddedIdle == BBoxIdle /\ StoreIdle

\* ------------------------------------------------- call-sequence bookkeeping
\* "fresh": nothing but reads so far; "pushes": only push(); "undos": pushes
\* then only undo(); "redos": pushes, undos, then only redo(); "other": any
\* other sequence.  Reads (latest, getValues) and mutations of returned
\* arrays are not operations of the history and leave the phase alone.
NextPhase(op) ==
  CASE op = "push" -> IF phase \in {"fresh", "pushes"} THEN "pushes" ELSE "other"
    [] op = "undo" -> IF phase \in {"pushes", "undos"} THEN "undos" ELSE "other"
    [] op = "redo" -> IF phase \in {"undos", "redos"} THEN "redos" ELSE "other"
    [] op = "clear" -> "other"
    [] OTHER -> phase

Track(op, a, r) ==
  /\ lastOp' = op
  /\ arg' = a
  /\ ret' = r
  /\ phase' = NextPhase(op)
  /\ base' = IF phase' = "other" THEN << >>
             ELSE IF op = "push" THEN Append(base, a) ELSE base
  /\ nUndo' = IF phase' = "other" THEN 0
              ELSE IF op = "undo" THEN Min(nUndo + 1, MaxPushes) ELSE nUndo
  /\ nRedo' = IF phase' = "other" THEN 0
              ELSE IF op = "redo" THEN Min(nRedo + 1, MaxPushes) ELSE nRedo
  /\ discarded' = IF op = "push" THEN discarded \cup Ids(redoState)
                  ELSE discarded
  /\ cur' = IF op = "push" THEN a
            ELSE IF op \in {"undo", "redo"} /\ r # Undefined THEN r
            ELSE cur
  /\ cleared' = (cleared \/ op = "clear")
  /\ floorSet' = IF op = "push" THEN TRUE
                 ELSE IF op = "clear" THEN FALSE ELSE floorSet
  /\ UNCHANGED otherVars

\* ---------------------------------------------------------------- actions
\* new UndoRedoStack(): two new, empty ActionStacks; nothing read yet.
HistInit ==
  /\ heap = [a \in ArrIds |-> << >>]
  /\ undoStack = UndoArr
  /\ redoStack = RedoArr
  /\ held = << >>
  /\ nPush = 0
  /\ nMut = 0
  /\ lastOp = "new"
  /\ arg = Undefined
  /\ ret = Undefined
  /\ phase = "fresh"
  /\ base = << >>
  /\ nUndo = 0
  /\ nRedo = 0
  /\ discarded = {}
  /\ cur = Undefined
  /\ cleared = FALSE
  /\ floorSet = FALSE

\* The history on its own: no raster is being scanned.
Init ==
  /\ HistInit
  /\ ScanIdle
  /\ AlignIdle
  /\ EdIdle
  /\ AddedIdle

Push(v) ==
  /\ nPush < MaxPushes
  /\ LET e == Entry(v, nPush + 1)
         r == UndoRedoStack_push(heap, e)
     IN  /\ heap' = r.heap
         /\ Track("push", e, r.ret)
  /\ nPush' = nPush + 1
  /\ UNCHANGED <<undoStack, redoStack, held, nMut>>

Undo ==
  /\ LET r == UndoRedoStack_undo(heap)
     IN  /\ heap' = r.heap
         /\ Track("undo", Undefined, r.ret)
  /\ UNCHANGED <<undoStack, redoStack, held, nPush, nMut>>

Redo ==
  /\ LET r == UndoRedoStack_redo(heap)
     IN  /\ heap' = r.heap
         /\ Track("redo", Undefined, r.ret)
  /\ UNCHANGED <<undoStack, redoStack, held, nPush, nMut>>

Clear ==
  /\ LET r == UndoRedoStack_clear(heap)
     IN  /\ heap' = r.heap
         /\ Track("clear", Undefined, r.ret)
  /\ UNCHANGED <<undoStack, redoStack, held, nPush, nMut>>

Latest ==
  /\ LET r == UndoRedoStack_latest(heap)
     IN  /\ heap' = r.heap
         /\ Track("latest", Undefined, r.ret)
  /\ UNCHANGED <<undoStack, redoStack, held, nPush, nMut>>

GetValues ==
  /\ LET r == UndoRedoStack_getValues(heap)
     IN  /\ heap' = r.heap
         /\ held' = r.ret
         /\ Track("getValues", Undefined, Undefined)
  /\ UNCHANGED <<undoStack, redoStack, nPush, nMut>>

\* The client mutates an array it got from getValues(): push, pop, element
\* overwrite, or truncation (length = 0).
MutatePush(ref, v) ==
  /\ Len(heap[ref]) < MaxArr
  /\ heap' = [heap EXCEPT ![ref] = Append(@, Entry(v, 0))]

MutatePop(ref) ==
  /\ Len(heap[ref]) > 0
  /\ heap' = [heap EXCEPT ![ref] = SubSeq(@, 1, Len(@) - 1)]

MutateSet(ref, i, v) ==
  /\ i \in 1..Len(heap[ref])
  /\ heap' = [heap EXCEPT ![ref] = [@ EXCEPT ![i] = Entry(v, 0)]]

MutateTruncate(ref) ==
  /\ Len(heap[ref]) > 0
  /\ heap' = [heap EXCEPT ![ref] = << >>]

Mutate ==
  /\ nMut < MaxMut
  /\ \E i \in DOMAIN held : \E ref \in {held[i]} :
       \/ \E v \in Vals : MutatePush(ref, v)
       \/ MutatePop(ref)
       \/ \E k \in 1..MaxArr, v \in Vals : MutateSet(ref, k, v)
       \/ MutateTruncate(ref)
  /\ nMut' = nMut + 1
  /\ Track("mutate", Undefined, Undefined)
  /\ UNCHANGED <<undoStack, redoStack, held, nPush>>

Next ==
  \/ \E v \in Vals : Push(v)
  \/ Undo
  \/ Redo
  \/ Clear
  \/ Latest
  \/ GetValues
  \/ Mutate

Spec == Init /\ [][Next]_vars

\* ------------------------------------------- ActionStack used on its own
\* UndoRedoStack.undoStack is a public field: a client can call the
\* ActionStack methods on it directly.  SpecStack drives that one
\* ActionStack with push, pop, current and clear in any order.
StackTrack(op, a, r) ==
  /\ lastOp' = op
  /\ arg' = a
  /\ ret' = r
  /\ UNCHANGED <<undoStack, redoStack, held, nMut, phase, base, nUndo,
                 nRedo, discarded, cur, cleared, floorSet>>
  /\ UNCHANGED otherVars

StackPush(v) ==
  /\ nPush < MaxPushes
  /\ LET e == Entry(v, nPush + 1)
     IN  /\ heap' = [heap EXCEPT ![undoStack] = ActionStack_push(@, e)]
         /\ StackTrack("push", e, Undefined)
  /\ nPush' = nPush + 1

StackPop ==
  /\ LET r == ActionStack_pop(undoState)
     IN  /\ heap' = [heap EXCEPT ![undoStack] = r.state]
         /\ StackTrack("pop", Undefined, r.ret)
  /\ UNCHANGED nPush

StackCurrent ==
  /\ StackTrack("current", Undefined, ActionStack_current(undoState))
  /\ UNCHANGED <<heap, nPush>>

StackClear ==
  /\ heap' = [heap EXCEPT ![undoStack] = ActionStack_clear(@)]
  /\ StackTrack("clear", Undefined, Undefined)
  /\ UNCHANGED nPush

StackNext ==
  \/ \E v \in Vals : StackPush(v)
  \/ StackPop
  \/ StackCurrent
  \/ StackClear

SpecStack == Init /\ [][StackNext]_vars

\* --------------------------------------------------- the scanner on its own
\* getRealBBox: the object has been rendered and decoded into img; the scan
\* runs once on it.
ScanInit ==
  /\ HistInit
  /\ AlignIdle
  /\ EdIdle
  /\ AddedIdle
  /\ \E w \in 1..MaxW, h \in 1..MaxH : img \in Images(w, h)
  /\ scanned = FALSE
  /\ scanOut = NoBox

Scan ==
  /\ ~scanned
  /\ scanOut' = scanPixels(getImageData(img), img.w, img.h)
  /\ scanned' = TRUE
  /\ UNCHANGED <<histVars, alignVars, edVars, addedVars, img>>

ScanNext == Scan

SpecScan == ScanInit /\ [][ScanNext]_vars

\* --------------------------------------------------------- alignment alone
\* One object on a canvas.  Its raster is img; the positions a caller may
\* pass are the six recognized ones and one that is not.
Positions == Horizontal \cup Vertical \cup {"middle"}

\* Rasters of an object to align: two rows high, one column short of the
\* widest raster.
ObjectImages == Images(MaxW - 1, 2)

AlignInit ==
  /\ HistInit
  /\ EdIdle
  /\ AddedIdle
  /\ img \in ObjectImages
  /\ scanned = FALSE
  /\ scanOut = NoBox
  /\ objLeft = Px(3)
  /\ objTop = Px(1)
  /\ bndDX \in {Px(0), Px(-1)}
  /\ bndDY = Px(0)
  /\ canvasWidth = 5
  /\ canvasHeight = 4
  /\ pending = {}
  /\ nAlign = 0
  /\ fired = 0
  /\ alOp = "none"
  /\ alTask = NoTask
  /\ alBox = NoBox
  /\ alSame = "none"

\* alignObject(canvas, activeSelection, pos) up to the await: the case is
\* chosen, the bounding rectangle read and the rasterization started.
AlignCall(pos) ==
  /\ nAlign < MaxAligns
  /\ nAlign' = nAlign + 1
  /\ LET t == [id |-> nAlign + 1, pos |-> pos,
               branch |-> alignObject_case(pos),
               boundLeft |-> getBoundingRect.left,
               boundTop |-> getBoundingRect.top]
     IN  /\ alTask' = t
         /\ pending' = IF t.branch = "default" THEN pending
                       ELSE pending \cup {t}
  /\ alOp' = "call"
  /\ alSame' = IF alSame \in {"none", pos} THEN pos ELSE "mixed"
  /\ UNCHANGED <<histVars, edVars, scanVars, addedVars, objLeft, objTop,
                 bndDX, bndDY, canvasWidth, canvasHeight, fired, alBox>>

\* The rest of a call, once getRealBBox has resolved: set left or top from
\* the position the object has now, and fire 'object:modified'.
AlignResumeTask(t) ==
  /\ t \in pending
  /\ pending' = pending \ {t}
  /\ LET realBound == getRealBBox(img)
     IN  /\ alBox' = realBound
         /\ objLeft' = alignObject_left(t.branch, objLeft, t.boundLeft,
                                        realBound, canvasWidth)
         /\ objTop' = alignObject_top(t.branch, objTop, t.boundTop,
                                      realBound, canvasHeight)
  /\ fired' = fired + 1
  /\ alOp' = "resume"
  /\ alTask' = t
  /\ UNCHANGED <<histVars, edVars, scanVars, addedVars, bndDX, bndDY,
                 canvasWidth, canvasHeight, nAlign, alSame>>

AlignResume == \E t \in pending : AlignResumeTask(t)

AlignNext ==
  \/ \E pos \in Positions : AlignCall(pos)
  \/ AlignResume

SpecAlign == AlignInit /\ [][AlignNext]_vars

\* --------------------------------------------------------------- the editor
\* An ImageEditor: its canvas, its history, the handlers that push to and
\* read from the history, and the loads they start.
EdInit ==
  /\ HistInit
  /\ ScanIdle
  /\ AlignIdle
  /\ AddedIdle
  /\ canvas \in Docs
  /\ loads = {}
  /\ nLoads = 0
  /\ timerPending = TRUE
  /\ edOp = "start"
  /\ edBurst = FALSE

EdTrack(op, a, r) ==
  /\ edOp' = op
  /\ edBurst' = CASE op \in {"undo", "redo"} -> (loads = {} \/ edBurst)
                  [] op = "loaded" -> edBurst
                  [] OTHER -> FALSE
  /\ lastOp' = op
  /\ arg' = a
  /\ ret' = r
  /\ UNCHANGED <<undoStack, redoStack, held, nMut, phase, base, nUndo,
                 nRedo, discarded, cur, cleared, floorSet>>
  /\ UNCHANGED <<scanVars, alignVars, addedVars>>

\* this.history.push(JSON.stringify(this.canvas.toJSON())), for the canvas
\* content d.
EdPush(op, d) ==
  /\ nPush < MaxPushes
  /\ LET e == Entry(JSON_stringify(d), nPush + 1)
         r == UndoRedoStack_push(heap, e)
     IN  /\ heap' = r.heap
         /\ EdTrack(op, e, r.ret)
  /\ nPush' = nPush + 1

\* Variant: the handler serializes the canvas as it was before the change.
EdModified_stale(d) ==
  /\ canvas' = d
  /\ EdPush("modified", canvas)
  /\ UNCHANGED <<loads, nLoads, timerPending>>

\* The user changes the canvas to d and 'object:modified' fires.
EdModified(d) ==
  /\ canvas' = d
  /\ EdPush("modified", d)
  /\ UNCHANGED <<loads, nLoads, timerPending>>

\* The timer set in initializeCanvas fires, 2 seconds after the start.
EdInitialCapture ==
  /\ timerPending
  /\ timerPending' = FALSE
  /\ EdPush("capture", canvas)
  /\ UNCHANGED <<canvas, loads, nLoads>>

\* ImageEditor.undo / ImageEditor.redo up to the await, given what the
\* history returned.
EdRequest(op, r) ==
  /\ nLoads < MaxLoads
  /\ heap' = r.heap
  /\ EdTrack(op, Undefined, r.ret)
  /\ IF ImageEditor_reloads(r.ret)
       THEN /\ loads' = loads \cup {[id |-> nLoads + 1, snapshot |-> r.ret]}
            /\ nLoads' = nLoads + 1
       ELSE UNCHANGED <<loads, nLoads>>
  /\ UNCHANGED <<canvas, timerPending, nPush>>

EdUndo == EdRequest("undo", UndoRedoStack_undo(heap))

EdRedo == EdRequest("redo", UndoRedoStack_redo(heap))

\* A loadFromJSON started by undo or redo finishes: the canvas holds the
\* parsed snapshot and is rendered.
EdLoadDone ==
  /\ \E l \in loads :
       /\ loads' = loads \ {l}
       /\ canvas' = JSON_parse(l.snapshot.val)
  /\ EdTrack("loaded", Undefined, Undefined)
  /\ UNCHANGED <<heap, nPush, nLoads, timerPending>>

\* The 'clear' button, confirmed: this.canvas.clear() and
\* SaveInBrowser.remove('canvasEditor').
EdClearCanvas ==
  /\ canvas' = 0
  /\ EdTrack("clear", Undefined, Undefined)
  /\ UNCHANGED <<heap, nPush, loads, nLoads, timerPending>>

EdNext ==
  \/ \E d \in Docs : EdModified(d)
  \/ EdInitialCapture
  \/ EdUndo
  \/ EdRedo
  \/ EdLoadDone
  \/ EdClearCanvas

SpecEditor == EdInit /\ [][EdNext]_vars

\* ------------------------------------------ a content-bounds computation
\* One getRealBBox(obj) call from start to finish.  The browser's event loop
\* dispatches the event of an Image whose src is set and runs the
\* continuation of a settled await: those steps are weakly fair.
BBoxInit ==
  /\ HistInit
  /\ AlignIdle
  /\ EdIdle
  /\ \E w \in 1..MaxW, h \in 1..MaxH : img \in Images(w, h)
  /\ scanned = FALSE
  /\ scanOut = NoBox
  /\ bbUrl = "none"
  /\ bbPc = "idle"
  /\ StoreIdle

\* getRealBBox(obj) up to the await: toDataURL, then getImageData(dataUrl).
BBoxCall(url) ==
  /\ bbPc = "idle"
  /\ bbUrl' = url
  /\ bbPc' = getImageData_executor(url)
  /\ UNCHANGED <<histVars, alignVars, edVars, scanVars, storeVars>>

\* The browser dispatches 'load' or 'error' on the Image.
BBoxImageEvent ==
  /\ bbPc = "loading"
  /\ bbPc' = getImageData_onEvent(Image_event(bbUrl))
  /\ UNCHANGED <<histVars, alignVars, edVars, scanVars, storeVars, bbUrl>>

\* The await resumes with the image data: scanPixels(data) is returned and
\* the promise of getRealBBox resolves with it.
BBoxScan ==
  /\ bbPc = "loaded"
  /\ scanOut' = scanPixels(getImageData(img), img.w, img.h)
  /\ scanned' = TRUE
  /\ bbPc' = "resolved"
  /\ UNCHANGED <<histVars, alignVars, edVars, storeVars, img, bbUrl>>

BBoxNext ==
  \/ \E url \in DataUrls : BBoxCall(url)
  \/ BBoxImageEvent
  \/ BBoxScan

SpecBBox ==
  /\ BBoxInit
  /\ [][BBoxNext]_vars
  /\ WF_vars(BBoxImageEvent)
  /\ WF_vars(BBoxScan)

\* ------------------------------------------------ persistence on its own
\* A client calls save, load and remove on two names in any order.
StoreInit ==
  /\ HistInit
  /\ ScanIdle
  /\ AlignIdle
  /\ EdIdle
  /\ BBoxIdle
  /\ StoreIdle

StoreSave(name, value) ==
  /\ store' = SaveInBrowser_save(store, name, value)
  /\ saved' = [saved EXCEPT ![name] = value]
  /\ stOp' = "save"
  /\ stName' = name
  /\ stRet' = NoLoad
  /\ UNCHANGED <<histVars, scanVars, alignVars, edVars, bboxVars>>

StoreLoad(name) ==
  /\ stRet' = SaveInBrowser_load(store, name)
  /\ stOp' = "load"
  /\ stName' = name
  /\ UNCHANGED <<histVars, scanVars, alignVars, edVars, bboxVars, store,
                 saved>>

StoreRemove(name) ==
  /\ store' = SaveInBrowser_remove(store, name)
  /\ saved' = [saved EXCEPT ![name] = NoValue]
  /\ stOp' = "remove"
  /\ stName' = name
  /\ stRet' = NoLoad
  /\ UNCHANGED <<histVars, scanVars, alignVars, edVars, bboxVars>>

StoreNext ==
  \/ \E name \in Names, value \in SavedValues : StoreSave(name, value)
  \/ \E name \in Names : StoreLoad(name)
  \/ \E name \in Names : StoreRemove(name)

SpecStore == StoreInit /\ [][StoreNext]_vars

\* ----------------------------------- a stack built on a caller's array
\* new UndoRedoStack({undoStack: new ActionStack(arr), redoStack: new
\* ActionStack()}) for an array arr the client keeps, next to a second
\* UndoRedoStack made by "new UndoRedoStack()".  The client uses the
\* ActionStack on arr through its methods, uses the second history, and
\* mutates arr.
PassedContents ==
  {<< >>, <<Entry("A", 0)>>, <<Entry("A", 0), Entry("B", 0)>>}

CtorInit ==
  /\ \E c \in PassedContents :
       LET h0 == [[a \in ArrIds |-> << >>] EXCEPT ![PassedArr] = c]
           r == ActionStack_constructor(h0, PassedArr, UndoArr)
       IN  /\ heap = r.heap
           /\ undoStack = r.ref
  /\ redoStack = RedoArr
  /\ held = << >>
  /\ nPush = 0
  /\ nMut = 0
  /\ lastOp = "new"
  /\ arg = Undefined
  /\ ret = Undefined
  /\ phase = "fresh"
  /\ base = << >>
  /\ nUndo = 0
  /\ nRedo = 0
  /\ discarded = {}
  /\ cur = Undefined
  /\ cleared = FALSE
  /\ floorSet = FALSE
  /\ ScanIdle
  /\ AlignIdle
  /\ EdIdle
  /\ AddedIdle

\* The second history: push, and pop / clear on its undo ActionStack.
CtorOtherPush(v) ==
  /\ Len(heap[OtherUndoArr]) < MaxArr
  /\ heap' = [heap EXCEPT
                ![OtherUndoArr] = ActionStack_push(@, Entry(v, 0)),
                ![OtherRedoArr] = ActionStack_clear(@)]

CtorOtherPop ==
  /\ heap' = [heap EXCEPT
                ![OtherUndoArr] = ActionStack_pop(@).state]

CtorOtherClear ==
  /\ heap' = [heap EXCEPT
                ![OtherUndoArr] = ActionStack_clear(@),
                ![OtherRedoArr] = ActionStack_clear(@)]

CtorOther ==
  /\ \/ \E v \in Vals : CtorOtherPush(v)
     \/ CtorOtherPop
     \/ CtorOtherClear
  /\ StackTrack("other", Undefined, Undefined)
  /\ UNCHANGED nPush

\* The client mutates the array it passed to the constructor.
CtorMutatePassed ==
  /\ nMut < MaxMut
  /\ \/ \E v \in Vals : MutatePush(PassedArr, v)
     \/ MutatePop(PassedArr)
     \/ \E k \in 1..MaxArr, v \in Vals : MutateSet(PassedArr, k, v)
     \/ MutateTruncate(PassedArr)
  /\ nMut' = nMut + 1
  /\ lastOp' = "mutate"
  /\ arg' = Undefined
  /\ ret' = Undefined
  /\ UNCHANGED <<undoStack, redoStack, held, nPush, phase, base, nUndo,
                 nRedo, discarded, cur, cleared, floorSet>>
  /\ UNCHANGED otherVars

CtorNext ==
  \/ \E v \in Vals : StackPush(v)
  \/ StackPop
  \/ StackCurrent
  \/ StackClear
  \/ CtorOther
  \/ CtorMutatePassed

SpecCtor == CtorInit /\ [][CtorNext]_vars

TypeOK ==
  /\ undoStack \in {UndoArr, PassedArr} /\ redoStack = RedoArr
  /\ nPush \in 0..MaxPushes
  /\ phase \in {"fresh", "pushes", "undos", "redos", "other"}

\* ------------------------------------------------------------- properties
latest == UndoRedoStack_latest(heap).ret
Last(st) == st[Len(st)]
Front(st) == SubSeq(st, 1, Len(st) - 1)

\* C1: after one or more push() calls followed only by undo() calls,
\* latest() is not undefined and the undo stack holds at least one entry.
C1_FloorAfterPushesThenUndos ==
  phase \in {"pushes", "undos"} =>
    /\ latest # Undefined
    /\ ActionStack_length(undoState) >= 1

\* More undo() calls than pushes have been made, the last one just now.
C1_Witness ==
  /\ phase = "undos"
  /\ lastOp = "undo"
  /\ nUndo > Len(base)
  /\ Len(undoState) = 1

\* C2: push(v) appends v to the undo stack (one entry more, whatever the
\* current top is) and leaves the redo stack empty; a redo() right after a
\* push is a no-op; and no later undo()/redo() returns a snapshot that was on
\* the redo stack when a push happened.
C2_PushDiscardsRedo ==
  /\ [][lastOp' = "push" =>
          /\ undoState' = Append(undoState, arg')
          /\ Len(undoState') = Len(undoState) + 1
          /\ redoState' = << >>]_vars
  /\ [][lastOp = "push" /\ lastOp' = "redo" =>
          /\ ret' = Undefined
          /\ undoState' = undoState
          /\ redoState' = redoState]_vars
  /\ [](lastOp \in {"undo", "redo"} => ret.id \notin discarded)

\* A push of a string equal to the current top has just discarded a
\* non-empty redo stack.
C2_Witness ==
  /\ lastOp = "push"
  /\ discarded # {}
  /\ Len(undoState) >= 2
  /\ undoState[Len(undoState)].val = undoState[Len(undoState) - 1].val

\* C3: push s1..sn (n >= 2) onto a fresh stack, then undo() k times and
\* redo() k times with 1 <= k <= n-1: both stacks are as they were before the
\* undos (undo stack s1..sn, redo stack empty), the last redo() returned sn,
\* and latest() is sn.
C3_UndoRedoInverse ==
  /\ phase = "pushes" => undoState = base /\ redoState = << >>
  /\ (phase = "redos" /\ nUndo \in 1..(Len(base) - 1) /\ nRedo = nUndo) =>
       /\ undoState = base
       /\ redoState = << >>
       /\ latest = Last(base)
       /\ lastOp = "redo" => ret = Last(base)

\* Three pushes, two undos, two redos, the last redo just now.
C3_Witness ==
  /\ phase = "redos"
  /\ lastOp = "redo"
  /\ Len(base) = 3
  /\ nUndo = 2
  /\ nRedo = 2

\* C4: with more than one entry on the undo stack, undo() removes the top
\* entry, pushes it onto the redo stack and returns the new top of the undo
\* stack; so after pushing s1..sn the i-th consecutive undo() (i < n)
\* returns s(n-i).
C4_UndoEffective ==
  /\ [][lastOp' = "undo" /\ Len(undoState) > 1 =>
          /\ undoState' = Front(undoState)
          /\ redoState' = Append(redoState, Last(undoState))
          /\ ret' = Last(undoState')]_vars
  /\ []((phase = "undos" /\ lastOp = "undo" /\ nUndo < Len(base)) =>
          ret = base[Len(base) - nUndo])

\* Three pushes, then the second undo() returned the first snapshot.
C4_Witness ==
  /\ phase = "undos"
  /\ lastOp = "undo"
  /\ Len(base) = 3
  /\ nUndo = 2
  /\ ret = base[1]
  /\ Len(redoState) = 2

\* C5: with a non-empty redo stack, redo() removes its top entry, pushes it
\* onto the undo stack and returns it, and latest() is then that entry.
C5_RedoEffective ==
  [][lastOp' = "redo" /\ Len(redoState) > 0 =>
       /\ redoState' = Front(redoState)
       /\ undoState' = Append(undoState, Last(redoState))
       /\ ret' = Last(redoState)
       /\ latest' = ret']_vars

\* An effective redo() that left something on the redo stack.
C5_Witness ==
  /\ lastOp = "redo"
  /\ ret # Undefined
  /\ ret = Last(undoState)
  /\ Len(redoState) >= 1

\* C6: undo() with 0 or 1 entries on the undo stack, and redo() with an
\* empty redo stack, return undefined and leave both stacks as they were.
C6_NoOpTransitions ==
  [][(\/ lastOp' = "undo" /\ Len(undoState) <= 1
      \/ lastOp' = "redo" /\ Len(redoState) = 0) =>
       /\ ret' = Undefined
       /\ undoState' = undoState
       /\ redoState' = redoState]_vars

\* An undo() at the floor entry, refused while the redo stack holds entries.
C6_Witness ==
  /\ lastOp = "undo"
  /\ ret = Undefined
  /\ Len(undoState) = 1
  /\ Len(redoState) >= 1

\* C7: latest() changes neither stack; it returns undefined while no push
\* has occurred, and after any sequence of push/undo/redo it is the snapshot
\* most recently made current (the argument of the last push or the value
\* returned by the last effective undo()/redo(), whichever came later).
C7_LatestIsCurrent ==
  /\ [][lastOp' = "latest" =>
          /\ undoState' = undoState
          /\ redoState' = redoState
          /\ ret' = latest]_vars
  /\ [](nPush = 0 => latest = Undefined)
  /\ []((nPush > 0 /\ ~cleared) => latest = cur)

\* latest() read after an effective undo().
C7_Witness ==
  /\ lastOp = "latest"
  /\ ~cleared
  /\ ret = cur
  /\ ret # Undefined
  /\ Len(redoState) >= 1

\* C8: clear() empties both stacks whatever they hold; right after it
\* undo() and redo() are no-ops, latest() is undefined, and the next push
\* leaves exactly the pushed snapshot on the undo stack as the new floor.
C8_ClearEmptiesBoth ==
  /\ [][lastOp' = "clear" =>
          /\ undoState' = << >>
          /\ redoState' = << >>]_vars
  /\ [][lastOp = "clear" /\ lastOp' \in {"undo", "redo"} =>
          /\ ret' = Undefined
          /\ undoState' = << >>
          /\ redoState' = << >>]_vars
  /\ [][lastOp = "clear" /\ lastOp' = "latest" => ret' = Undefined]_vars
  /\ [][lastOp = "clear" /\ lastOp' = "push" =>
          /\ undoState' = <<arg'>>
          /\ redoState' = << >>]_vars

\* clear() called after snapshots had been pushed and undone.
C8_Witness ==
  /\ lastOp = "clear"
  /\ cur # Undefined
  /\ nPush >= 2
  /\ undoState = << >>
  /\ redoState = << >>

\* C9 as stated: once any push has occurred the undo stack is never empty,
\* whatever sequence of push, undo, redo and clear follows.
C9_FloorForever ==
  nPush > 0 => ActionStack_length(undoState) >= 1

\* C9 amended: once a push has occurred since construction or the last
\* clear(), the undo stack is not empty, whatever sequence of push, undo and
\* redo follows; clear() is the one operation that empties it.
C9_FloorSinceClear ==
  /\ floorSet => ActionStack_length(undoState) >= 1
  /\ lastOp = "clear" => ActionStack_length(undoState) = 0

\* A floor set again after a clear(), and an undo() refused at it.
C9_Witness ==
  /\ floorSet
  /\ cleared
  /\ lastOp = "undo"
  /\ ret = Undefined
  /\ Len(undoState) = 1

\* C10: the arrays getValues() returns are copies: they hold the stacks'
\* contents, are not the stacks' own arrays, and mutating one (push, pop,
\* element overwrite, truncation) changes neither stack, hence no later
\* result of pop/current/latest/undo/redo.
C10_CopyIsolation ==
  /\ [][lastOp' = "getValues" =>
          /\ heap'[held'[1]] = undoState
          /\ heap'[held'[2]] = redoState
          /\ undoState' = undoState
          /\ redoState' = redoState]_vars
  /\ [](\A i \in DOMAIN held : held[i] \notin {undoStack, redoStack})
  /\ [][lastOp' = "mutate" =>
          /\ undoState' = undoState
          /\ redoState' = redoState]_vars

\* The client has changed the copy of a non-empty undo stack.
C10_Witness ==
  /\ lastOp = "mutate"
  /\ held # << >>
  /\ undoState # << >>
  /\ heap[held[1]] # undoState

\* The largest push serial among the entries of a non-empty stack: the
\* entry pushed last of those still present.
MaxId(st) == CHOOSE i \in Ids(st) : \A j \in Ids(st) : j <= i

\* C11: pop() and current() return undefined exactly when the stack is
\* empty; on an empty stack the stack stays empty; on a non-empty stack they
\* return the entry pushed last among those still present (pop removes it,
\* current leaves the stack as it is).
C11_EmptySentinel ==
  [][lastOp' \in {"pop", "current"} =>
       /\ (ret' = Undefined) <=> ActionStack_isEmpty(undoState)
       /\ ActionStack_isEmpty(undoState) => undoState' = << >>
       /\ ~ActionStack_isEmpty(undoState) =>
            /\ ret'.id = MaxId(undoState)
            /\ \E i \in 1..Len(undoState) : undoState[i] = ret'
            /\ lastOp' = "pop" =>
                 /\ Len(undoState') = Len(undoState) - 1
                 /\ Ids(undoState') = Ids(undoState) \ {ret'.id}
            /\ lastOp' = "current" => undoState' = undoState]_vars

\* current() on a stack of two entries, after an earlier entry was popped.
C11_Witness ==
  /\ lastOp = "current"
  /\ Len(undoState) = 2
  /\ ret = undoState[2]
  /\ ret.id = 3

\* The smallest rectangle, in inclusive pixel coordinates, that holds every
\* pixel of im with non-zero alpha.
MinOf(S) == CHOOSE a \in S : \A b \in S : a <= b
MaxOf(S) == CHOOSE a \in S : \A b \in S : b <= a
OpaqueCols(im) == {Col(im, p) : p \in im.opaque}
OpaqueRows(im) == {Row(im, p) : p \in im.opaque}

\* C12: for a buffer with at least one pixel of non-zero alpha, the
\* rectangle returned holds every such pixel (columns within [x1, x2], rows
\* within [y1, y2]) and is the smallest one that does.
C12_MinimalRect ==
  (scanned /\ img.opaque # {}) =>
    /\ scanOut.x1 = MinOf(OpaqueCols(img))
    /\ scanOut.x2 = MaxOf(OpaqueCols(img))
    /\ scanOut.y1 = MinOf(OpaqueRows(img))
    /\ scanOut.y2 = MaxOf(OpaqueRows(img))

\* C13: a w x h buffer (w, h >= 2) whose pixels all have non-zero alpha
\* scans to x1 = 0, y1 = 0, x2 = w-1, y2 = h-1, width = w-1, height = h-1.
C13_FullyOpaque ==
  (scanned /\ img.w >= 2 /\ img.h >= 2 /\ img.opaque = Pixels(img.w, img.h)) =>
    scanOut = [x1 |-> 0, y1 |-> 0, x2 |-> img.w - 1, y2 |-> img.h - 1,
               width |-> img.w - 1, height |-> img.h - 1]

\* C14: a fully transparent w x h buffer scans to the fallback rectangle
\* y1 = h-1, y2 = h, x1 = w, x2 = 0, width = -w, height = 1.
C14_TransparentFallback ==
  (scanned /\ img.opaque = {}) =>
    scanOut = [x1 |-> img.w, x2 |-> 0, y1 |-> img.h - 1, y2 |-> img.h,
               width |-> 0 - img.w, height |-> 1]

\* A fully transparent 3 x 3 buffer has been scanned.
C14_Witness ==
  /\ scanned
  /\ img.w = 3
  /\ img.h = 3
  /\ img.opaque = {}
  /\ scanOut.x1 = 3
  /\ scanOut.y1 = 2

\* C15: a call with pos left, center-h or right sets left to
\* (left - nominal left - realBound.x1) plus 0, canvas.width/2 -
\* realBound.width/2, or canvas.width - realBound.width, and leaves top as it
\* is.  (left 50, nominal left 50, x1 5: -5; canvas width 800, opaque width
\* 100, center-h: 345.)
C15_HorizontalAlign ==
  /\ [][(alOp' = "resume" /\ alTask'.pos \in Horizontal) =>
          /\ objTop' = objTop
          /\ LET snapped == objLeft - alTask'.boundLeft - Px(alBox'.x1)
             IN  /\ alTask'.pos = "left" => objLeft' = snapped
                 /\ alTask'.pos = "center-h" =>
                      objLeft' = snapped + HalfOfPx(canvasWidth)
                                   - HalfOfPx(alBox'.width)
                 /\ alTask'.pos = "right" =>
                      objLeft' = snapped + Px(canvasWidth)
                                   - Px(alBox'.width)]_vars
  /\ [](alignObject_left("left", Px(50), Px(50),
                         [x1 |-> 5, width |-> 100], 800) = Px(-5))
  /\ [](alignObject_left("center-h", Px(50), Px(50),
                         [x1 |-> 5, width |-> 100], 800) = Px(345))

\* A 'right' call has completed and moved the object.
C15_Witness ==
  /\ alOp = "resume"
  /\ alTask.pos = "right"
  /\ objLeft # Px(3)
  /\ objTop = Px(1)
  /\ fired = 1

\* C16: a call with pos top, center-v or bottom sets top to
\* (top - nominal top - realBound.y1) plus 0, canvas.height/2 -
\* realBound.height/2, or canvas.height - realBound.height, and leaves left
\* as it is.
C16_VerticalAlign ==
  [][(alOp' = "resume" /\ alTask'.pos \in Vertical) =>
       /\ objLeft' = objLeft
       /\ LET snapped == objTop - alTask'.boundTop - Px(alBox'.y1)
          IN  /\ alTask'.pos = "top" => objTop' = snapped
              /\ alTask'.pos = "center-v" =>
                   objTop' = snapped + HalfOfPx(canvasHeight)
                               - HalfOfPx(alBox'.height)
              /\ alTask'.pos = "bottom" =>
                   objTop' = snapped + Px(canvasHeight)
                               - Px(alBox'.height)]_vars

\* A 'bottom' call has completed and moved the object.
C16_Witness ==
  /\ alOp = "resume"
  /\ alTask.pos = "bottom"
  /\ objTop # Px(1)
  /\ objLeft = Px(3)
  /\ fired = 1

\* C17: a call with a position other than the six recognized ones starts
\* no rasterization, changes neither left nor top and fires no
\* 'object:modified', so nothing is pushed onto the history.
C17_UnknownPositionNoOp ==
  [][(alOp' = "call" /\ alTask'.pos \notin Horizontal \cup Vertical) =>
       /\ pending' = pending
       /\ objLeft' = objLeft
       /\ objTop' = objTop
       /\ fired' = fired
       /\ heap' = heap]_vars

\* alignObject(canvas, obj, 'middle') has returned.
C17_Witness ==
  /\ alOp = "call"
  /\ alTask.pos = "middle"
  /\ pending = {}
  /\ fired = 0

\* Raster column x of the object is drawn on the canvas from
\* getBoundingRect().left + x to getBoundingRect().left + x + 1, row y from
\* getBoundingRect().top + y to getBoundingRect().top + y + 1 (half pixels).
ContentLeftEdge == getBoundingRect.left + Px(MinOf(OpaqueCols(img)))
ContentRightEdge == getBoundingRect.left + Px(MaxOf(OpaqueCols(img)) + 1)
ContentTopEdge == getBoundingRect.top + Px(MinOf(OpaqueRows(img)))
ContentBottomEdge == getBoundingRect.top + Px(MaxOf(OpaqueRows(img)) + 1)

\* The object has not moved between the call of the last resumed task and
\* its completion.
Undisturbed(t) ==
  /\ t.boundLeft = getBoundingRect.left
  /\ t.boundTop = getBoundingRect.top

\* C18: when an alignment to an edge completes for an object with at least
\* one opaque pixel, and the object was not changed meanwhile, the opaque
\* content touches that edge of the canvas: its outermost opaque pixel on
\* that side ends exactly at the edge.
C18_ContentTouchesEdge ==
  [][(alOp' = "resume" /\ img.opaque # {} /\ Undisturbed(alTask')) =>
       /\ alTask'.pos = "left" => ContentLeftEdge' = 0
       /\ alTask'.pos = "right" => ContentRightEdge' = Px(canvasWidth)
       /\ alTask'.pos = "top" => ContentTopEdge' = 0
       /\ alTask'.pos = "bottom" =>
            ContentBottomEdge' = Px(canvasHeight)]_vars

\* C19: when the history returns undefined to the editor's undo or redo
\* handler, no load is started and the canvas keeps its content; a load is
\* started exactly when a snapshot is returned, and it is a load of that
\* snapshot.
C19_NoReloadOnNoOp ==
  [][edOp' \in {"undo", "redo"} =>
       /\ canvas' = canvas
       /\ ret' = Undefined => (loads' = loads /\ nLoads' = nLoads)
       /\ ret' # Undefined =>
            /\ nLoads' = nLoads + 1
            /\ \E l \in loads' \ loads :
                 /\ l.snapshot = ret'
                 /\ loads' = loads \cup {l}]_vars

\* An undo refused at the floor entry while an earlier load is pending.
C19_Witness ==
  /\ edOp = "undo"
  /\ ret = Undefined
  /\ Len(undoState) = 1
  /\ loads # {}

\* C20: confirming 'clear canvas' clears the editor's history: both stacks
\* are empty afterwards.
C20_ClearCanvasClearsHistory ==
  [][edOp' = "clear" =>
       /\ undoState' = << >>
       /\ redoState' = << >>]_vars

\* C21: every 'object:modified' notification makes exactly one push, of the
\* serialization of the canvas at that moment: right after it latest() is
\* the serialized current document, the undo stack is one entry longer and
\* the redo stack is empty.
C21_ModifiedPushesSnapshot ==
  [][edOp' = "modified" =>
       /\ nPush' = nPush + 1
       /\ undoState' = Append(undoState, latest')
       /\ latest'.val = JSON_stringify(canvas')
       /\ JSON_parse(latest'.val) = canvas'
       /\ redoState' = << >>]_vars

\* A change made while an undo's load is still pending: the push has
\* emptied the redo stack that undo had filled.
C21_Witness ==
  /\ edOp = "modified"
  /\ loads # {}
  /\ Len(undoState) >= 2
  /\ redoState = << >>
  /\ latest.val = JSON_stringify(canvas)

\* The timeline: the undo stack bottom to top, then the redo stack top to
\* bottom.
Reverse(st) == [i \in 1..Len(st) |-> st[Len(st) + 1 - i]]
Timeline == undoState \o Reverse(redoState)

\* C22: undo() and redo() neither create, drop nor reorder snapshots: the
\* timeline is the same before and after each call, and the number of
\* entries on the two stacks together changes only by push and clear.
C22_TimelinePreserved ==
  /\ [][lastOp' \in {"undo", "redo"} => Timeline' = Timeline]_vars
  /\ [][Len(undoState') + Len(redoState') # Len(undoState) + Len(redoState)
          => lastOp' \in {"push", "clear"}]_vars

\* An effective redo() that took one of two entries from the redo stack.
C22_Witness ==
  /\ lastOp = "redo"
  /\ ret # Undefined
  /\ Len(undoState) = 2
  /\ Len(redoState) = 1
  /\ Len(Timeline) = 3

\* C23: on the byte array getImageData delivers, the scanner takes the
\* pixel at column x, row y for opaque exactly when that pixel's alpha byte
\* (byte 4*(y*w + x) + 3 of the array) is not zero.
C23_AlphaClassification ==
  scanned =>
    \A p \in Pixels(img.w, img.h) :
      IsHit(Uint32Array(getImageData(img)), img.w, Col(img, p), Row(img, p))
        <=> getImageData(img)[4 * p + 3] # 0

\* C24: a content-bounds computation never waits forever: once getRealBBox
\* has been called its promise eventually settles (resolves with a bounds
\* record or rejects), also when the rasterized image fails to load, and
\* the scan of a loaded raster ends with a result.
C24_BoundsEventuallySettle ==
  /\ (bbPc # "idle") ~> (bbPc \in {"resolved", "rejected"})
  /\ (bbPc = "loaded") ~> scanned

\* C25: load(name) returns a value equal to the value last saved under
\* that name and not removed since, for every object or string saved; when
\* nothing is saved under the name (never saved, or removed) it returns
\* the empty object; it never throws; save and remove leave the items of
\* other names as they are.
C25_StoreRoundTrip ==
  /\ [][stOp' = "load" =>
          /\ ~stRet'.threw
          /\ stRet'.value = IF saved[stName'] = NoValue THEN EmptyObject
                            ELSE saved[stName']]_vars
  /\ [][stOp' \in {"save", "remove"} =>
          \A n \in Names \ {stName'} : store'[n] = store[n]]_vars

\* C26: for a buffer with at least one pixel of non-zero alpha the scanner
\* returns a well-formed rectangle, 0 <= x1 <= x2 < w and 0 <= y1 < y2, so
\* width >= 0 and height >= 1; a negative width comes only from a fully
\* transparent buffer.
C26_WellFormedRect ==
  /\ (scanned /\ img.opaque # {}) =>
       /\ 0 <= scanOut.x1
       /\ scanOut.x1 <= scanOut.x2
       /\ scanOut.x2 < img.w
       /\ 0 <= scanOut.y1
       /\ scanOut.y1 < scanOut.y2
       /\ scanOut.width >= 0
       /\ scanOut.height >= 1
  /\ (scanned /\ scanOut.width < 0) => img.opaque = {}

\* C27: overlapping calls for the same object and position are idempotent:
\* when every call so far was for one position, and the call completing
\* last had started before an earlier one completed (it read the bounding
\* rectangle the object had at first), the object ends where a single
\* completed call puts it.
C27_OverlapIdempotent ==
  (/\ alOp = "resume"
   /\ pending = {}
   /\ alTask.id >= 2
   /\ alSame = alTask.pos
   /\ alTask.boundLeft = Px(3) + bndDX
   /\ alTask.boundTop = Px(1) + bndDY) =>
    /\ objLeft = alignObject_left(alTask.branch, Px(3), Px(3) + bndDX,
                                 alBox, canvasWidth)
    /\ objTop = alignObject_top(alTask.branch, Px(1), Px(1) + bndDY,
                               alBox, canvasHeight)

\* C28: the delayed initial capture is the first push into the history:
\* when it runs both stacks are empty (it neither repeats the current
\* snapshot nor clears a redo stack that holds entries), and the entry it
\* pushes is the floor entry, whatever the user did before it fired.
C28_CaptureIsFirstPush ==
  [][edOp' = "capture" =>
       /\ undoState = << >>
       /\ redoState = << >>
       /\ undoState' = <<arg'>>]_vars

\* C29: when undo/redo requests follow one another while loads are
\* pending, then once every load has finished the canvas shows the
\* snapshot the last effective request returned, which is latest(),
\* whatever the order in which the loads finish.
C29_LastRequestWins ==
  (edBurst /\ edOp = "loaded" /\ loads = {}) =>
    canvas = JSON_parse(latest.val)

\* C30: the contents of an ActionStack change only by its own push, pop
\* and clear: not by an operation on another ActionStack or on another
\* default-constructed UndoRedoStack, and not by a later mutation of the
\* array that was passed to its constructor.
C30_StackFrame ==
  [][undoState' # undoState => lastOp' \in {"push", "pop", "clear"}]_vars

====
